---- MODULE Spec2Model ----
(***************************************************************************)
(* Model of vimbax_camera/src/vimbax_camera_node.cpp: the streaming        *)
(* lifecycle of VimbaXCameraNode.                                          *)
(*                                                                         *)
(* Threads of the program:                                                 *)
(*   - graph_notify_thread_ (the Graph Monitor loop, lines 199-212),       *)
(*   - the executor's threads running the service handlers and the         *)
(*     on_set_parameters callback,                                         *)
(*   - the device thread invoking the frame callback (lines 759-775),      *)
(*   - the thread running ~VimbaXCameraNode (lines 80-93).                 *)
(* The camera object (VimbaXCamera) is not part of the file; its           *)
(* start_streaming / stop_streaming / is_streaming are modelled from the   *)
(* specification's section 4.1.                                            *)
(***************************************************************************)
EXTENDS Integers, Sequences, FiniteSets, TLC

\* ---- program constants ----
BufferCountMin == 3
BufferCountMax == 1000
BufferCountDefault == 7
LastFrameIdInitial == -1

\* ---- bounds of the model ----
MaxRequestedBuffers == 3
MaxSubscribers == 1
MaxFrameId == 3
NumWorkers == 2
MaxPayload == 1
MaxPending == 1

\* values a successful call answers, and error codes of the device
PayloadValues == 1..MaxPayload
ErrorCodes == {"DeviceError"}

BufferValues == (BufferCountMin..MaxRequestedBuffers) \cup {BufferCountDefault}
FrameIds == 0..MaxFrameId
Workers == 1..NumWorkers

\* the services initialize_services() creates, one after the other (lines
\* 250-751); the model keeps one service for each handler body
NumServices == 6

VARIABLES
  camera_open,        \* camera_ holds the camera (reset at line 92)
  is_streaming,       \* camera_->is_streaming()
  session_buffers,    \* buffers of the active session, 0 when stopped
  deviceReliable,     \* the device accepts every acquisition start
  buffer_count,       \* the node parameter "buffer_count"
  lastSet,            \* outcome of the latest buffer_count set request
  num_subscribers,    \* image_publisher_.getNumSubscribers()
  event_flag,         \* flag of the graph event the monitor holds
  gpc,                \* position of graph_notify_thread_
  g_buffer_count,     \* buffer_count local of the monitor's start_streaming
  gIter,              \* what the monitor saw and requested this iteration
  stop_threads_,      \* the atomic stop flag
  tpc,                \* position of the destructor
  init,               \* position and findings of make_shared()
  pending,            \* stream services with a request waiting
  can_be_taken_from,  \* per callback group: no callback of it is running
  wpc,                \* position of each executor thread
  w_buffer_count,     \* buffer_count local of a handler's start_streaming
  w_job,              \* service, device result and response of each thread
  lastFrameId,        \* the static of the frame callback (line 760)
  dev_last_id,        \* id of the last frame the device delivered this session
  cb                  \* the frame callback in progress / last completed

cameraVars == <<camera_open, is_streaming, session_buffers, deviceReliable>>
paramVars == <<buffer_count, lastSet>>
graphVars == <<num_subscribers, event_flag>>
monitorVars == <<gpc, g_buffer_count, gIter>>
teardownVars == <<stop_threads_, tpc>>
executorVars == <<pending, can_be_taken_from, wpc, w_buffer_count, w_job>>
initVars == <<init>>
relayVars == <<lastFrameId, dev_last_id, cb>>
vars == <<cameraVars, paramVars, graphVars, monitorVars, teardownVars,
          executorVars, relayVars, initVars>>

NoObs == [subs |-> -1, streaming |-> FALSE]
NewIter == [woke |-> "none", first |-> NoObs, second |-> NoObs,
            calls |-> << >>, result |-> "none"]
NoFrame == [pc |-> "idle", id |-> -1, prev |-> -1,
            first |-> FALSE, warns |-> 0, missing |-> 0,
            publish |-> "none", queue_calls |-> 0, queue_result |-> "none",
            after_failed |-> FALSE]
NoResult == [code |-> "none", value |-> 0]
NoJob == [svc |-> "none", found_streaming |-> FALSE, result |-> NoResult,
          error |-> "Success", payload |-> 0]
NodeRunning ==
  [pc |-> "done", settings_file |-> "", loads |-> 0, load_failed |-> FALSE,
   api |-> TRUE, camera |-> TRUE, groups |-> TRUE, publisher |-> TRUE,
   services |-> NumServices, failed_at |-> "none", shutdown |-> FALSE]
NoSet == [requested |-> FALSE, successful |-> FALSE, streaming |-> FALSE,
          accepted |-> BufferCountDefault]

\* ---- the camera object (VimbaXCamera), from section 4.1 of the spec ----

\* start(buffer_count): AlreadyStreaming when active; the device may reject
\* the acquisition start; on failure the state is unchanged.
camera_start_streaming(n, res) ==
  IF is_streaming
    THEN /\ res = "AlreadyStreaming"
         /\ UNCHANGED <<is_streaming, session_buffers, dev_last_id>>
    ELSE \/ /\ res = "Success"
            /\ is_streaming' = TRUE
            /\ session_buffers' = n
            /\ dev_last_id' = -1
         \/ /\ ~deviceReliable
            /\ res = "DeviceError"
            /\ UNCHANGED <<is_streaming, session_buffers, dev_last_id>>

\* stop(): a successful no-op when stopped; otherwise the stream ends and the
\* buffers are released, whatever the device answers.
camera_stop_streaming(res) ==
  /\ IF is_streaming
       THEN /\ res = "Success" \/ (~deviceReliable /\ res = "DeviceError")
            /\ is_streaming' = FALSE
            /\ session_buffers' = 0
       ELSE /\ res = "Success"
            /\ UNCHANGED <<is_streaming, session_buffers>>
  /\ UNCHANGED dev_last_id

\* the other calls (feature access, settings, camera info): one result, a
\* value or an error code of the device; the stream is not touched
camera_device_call(results, r) ==
  /\ r \in results
  /\ UNCHANGED <<is_streaming, session_buffers, dev_last_id>>

\* ---- state after make_shared() returned the node ----
Init ==
  /\ camera_open = TRUE
  /\ is_streaming = FALSE
  /\ session_buffers = 0
  /\ deviceReliable \in BOOLEAN
  /\ buffer_count = BufferCountDefault
  /\ lastSet = NoSet
  /\ num_subscribers = 0
  /\ event_flag = FALSE
  /\ gpc = "loop"
  /\ g_buffer_count = 0
  /\ gIter = NewIter
  /\ stop_threads_ = FALSE
  /\ tpc = "alive"
  /\ pending = {}
  /\ can_be_taken_from = [g \in {"feature", "settings", "status", "stream"} |-> TRUE]
  /\ wpc = [w \in Workers |-> "idle"]
  /\ w_buffer_count = [w \in Workers |-> 0]
  /\ w_job = [w \in Workers |-> NoJob]
  /\ init = NodeRunning
  /\ lastFrameId = LastFrameIdInitial
  /\ dev_last_id = -1
  /\ cb = NoFrame

\* ---- make_shared() (lines 34-78), step by step ----

\* values of the settings_file parameter: unset, or the path of a file
SettingsFiles == {"", "camera.xml"}

\* line 36: the object exists, nothing is initialised
InitStart ==
  /\ camera_open = FALSE
  /\ is_streaming = FALSE
  /\ session_buffers = 0
  /\ deviceReliable \in BOOLEAN
  /\ buffer_count = BufferCountDefault
  /\ lastSet = NoSet
  /\ num_subscribers = 0
  /\ event_flag = FALSE
  /\ gpc = "not_started"
  /\ g_buffer_count = 0
  /\ gIter = NewIter
  /\ stop_threads_ = FALSE
  /\ tpc = "alive"
  /\ pending = {}
  /\ can_be_taken_from = [g \in {"feature", "settings", "status", "stream"} |-> TRUE]
  /\ wpc = [w \in Workers |-> "idle"]
  /\ w_buffer_count = [w \in Workers |-> 0]
  /\ w_job = [w \in Workers |-> NoJob]
  /\ \E f \in SettingsFiles :
       init = [pc |-> "node", settings_file |-> f, loads |-> 0, load_failed |-> FALSE,
               api |-> FALSE, camera |-> FALSE, groups |-> FALSE, publisher |-> FALSE,
               services |-> 0, failed_at |-> "none", shutdown |-> FALSE]
  /\ lastFrameId = LastFrameIdInitial
  /\ dev_last_id = -1
  /\ cb = NoFrame

\* return {}: the last reference to the object goes, its destructor runs
\* (lines 80-93) and releases what was acquired; init.failed_at keeps the
\* step that returned false
InitAbort ==
  /\ init' = [init EXCEPT !.pc = "failed", !.failed_at = init.pc]
  /\ stop_threads_' = TRUE
  /\ tpc' = "released"
  /\ camera_open' = FALSE

\* the step goes on to the next one
InitProceed(to) ==
  /\ init' = [init EXCEPT !.pc = to]
  /\ UNCHANGED <<camera_open, teardownVars>>

\* lines 42-46
MakeNode ==
  /\ init.pc = "node"
  /\ InitProceed("parameters") \/ InitAbort
  /\ UNCHANGED <<is_streaming, session_buffers, deviceReliable>>
  /\ UNCHANGED <<paramVars, graphVars, monitorVars, executorVars, relayVars>>

\* line 48, lines 95-128: always true
InitParameters ==
  /\ init.pc = "parameters"
  /\ InitProceed("api")
  /\ buffer_count' = BufferCountDefault
  /\ UNCHANGED lastSet
  /\ UNCHANGED <<is_streaming, session_buffers, deviceReliable>>
  /\ UNCHANGED <<graphVars, monitorVars, executorVars, relayVars>>

\* initialize_api() with its result dropped: make_shared() goes on to the
\* camera whether or not the library loaded
InitApiUnchecked ==
  /\ init.pc = "api"
  /\ \E loaded \in BOOLEAN :
       init' = [init EXCEPT !.pc = "camera_open", !.api = loaded, !.shutdown = ~loaded]
  /\ UNCHANGED <<camera_open, teardownVars>>
  /\ UNCHANGED <<is_streaming, session_buffers, deviceReliable>>
  /\ UNCHANGED <<paramVars, graphVars, monitorVars, executorVars, relayVars>>

\* rclcpp::shutdown() (lines 138, 177), then return false
InitAbortShutdown ==
  /\ init' = [init EXCEPT !.pc = "failed", !.failed_at = init.pc, !.shutdown = TRUE]
  /\ stop_threads_' = TRUE
  /\ tpc' = "released"
  /\ camera_open' = FALSE

\* line 52, lines 130-152
InitApi ==
  /\ init.pc = "api"
  /\ \/ /\ init' = [init EXCEPT !.pc = "camera_open", !.api = TRUE]
        /\ UNCHANGED <<camera_open, teardownVars>>
     \/ InitAbortShutdown
  /\ UNCHANGED <<is_streaming, session_buffers, deviceReliable>>
  /\ UNCHANGED <<paramVars, graphVars, monitorVars, executorVars, relayVars>>

\* lines 173-179: VimbaXCamera::open
InitCameraOpen ==
  /\ init.pc = "camera_open"
  /\ \/ /\ init' = [init EXCEPT !.pc = "camera_settings", !.camera = TRUE]
        /\ camera_open' = TRUE
        /\ UNCHANGED teardownVars
     \/ InitAbortShutdown
  /\ UNCHANGED <<is_streaming, session_buffers, deviceReliable>>
  /\ UNCHANGED <<paramVars, graphVars, monitorVars, executorVars, relayVars>>

\* initialize_camera() with a failed load of the settings treated as a failed
\* open
InitCameraSettingsFatal ==
  /\ init.pc = "camera_settings"
  /\ IF init.settings_file # ""
       THEN \/ /\ init' = [init EXCEPT !.pc = "groups", !.loads = @ + 1]
               /\ UNCHANGED <<camera_open, teardownVars>>
            \/ /\ init' = [init EXCEPT !.pc = "failed", !.loads = @ + 1,
                                        !.load_failed = TRUE,
                                        !.failed_at = "camera_settings"]
               /\ stop_threads_' = TRUE
               /\ tpc' = "released"
               /\ camera_open' = FALSE
       ELSE InitProceed("groups")
  /\ UNCHANGED <<is_streaming, session_buffers, deviceReliable>>
  /\ UNCHANGED <<paramVars, graphVars, monitorVars, executorVars, relayVars>>

\* lines 181-192: the settings file, when one is configured; line 192
\* returns true whatever the load answered
InitCameraSettings ==
  /\ init.pc = "camera_settings"
  /\ IF init.settings_file # ""
       THEN \E failed \in BOOLEAN :
              init' = [init EXCEPT !.pc = "groups", !.loads = @ + 1,
                                   !.load_failed = failed]
       ELSE init' = [init EXCEPT !.pc = "groups"]
  /\ UNCHANGED <<camera_open, teardownVars>>
  /\ UNCHANGED <<is_streaming, session_buffers, deviceReliable>>
  /\ UNCHANGED <<paramVars, graphVars, monitorVars, executorVars, relayVars>>

\* line 60, lines 221-248
InitCallbackGroups ==
  /\ init.pc = "groups"
  /\ \/ /\ init' = [init EXCEPT !.pc = "publisher", !.groups = TRUE]
        /\ UNCHANGED <<camera_open, teardownVars>>
     \/ InitAbort
  /\ UNCHANGED <<is_streaming, session_buffers, deviceReliable>>
  /\ UNCHANGED <<paramVars, graphVars, monitorVars, executorVars, relayVars>>

\* line 64, lines 154-168
InitPublisher ==
  /\ init.pc = "publisher"
  /\ \/ /\ init' = [init EXCEPT !.pc = "services", !.publisher = TRUE]
        /\ UNCHANGED <<camera_open, teardownVars>>
     \/ InitAbort
  /\ UNCHANGED <<is_streaming, session_buffers, deviceReliable>>
  /\ UNCHANGED <<paramVars, graphVars, monitorVars, executorVars, relayVars>>

\* line 68, lines 250-751: CHK_SVC after each create_service, so that a
\* failure leaves the services created before it
InitServices ==
  /\ init.pc = "services"
  /\ \/ /\ init' = [init EXCEPT !.pc = "graph_notify", !.services = NumServices]
        /\ UNCHANGED <<camera_open, teardownVars>>
     \/ \E created \in 0 .. NumServices - 1 :
          /\ init' = [init EXCEPT !.pc = "failed", !.failed_at = "services",
                                  !.services = created]
          /\ stop_threads_' = TRUE
          /\ tpc' = "released"
          /\ camera_open' = FALSE
  /\ UNCHANGED <<is_streaming, session_buffers, deviceReliable>>
  /\ UNCHANGED <<paramVars, graphVars, monitorVars, executorVars, relayVars>>

\* line 72, lines 195-219: the monitor thread starts; lines 76-77
InitGraphNotify ==
  /\ init.pc = "graph_notify"
  /\ InitProceed("done")
  /\ gpc' = "loop"
  /\ UNCHANGED <<g_buffer_count, gIter>>
  /\ UNCHANGED <<is_streaming, session_buffers, deviceReliable>>
  /\ UNCHANGED <<paramVars, graphVars, executorVars, relayVars>>

\* ---- the ROS graph: a subscriber joins or leaves, or any other change ----

GraphChange ==
  /\ tpc # "released"
  /\ \E n \in 0..MaxSubscribers : num_subscribers' = n
  /\ event_flag' = TRUE
  /\ UNCHANGED <<cameraVars, paramVars, monitorVars, teardownVars,
                 executorVars, relayVars, initVars>>

\* ---- graph_notify_thread_ (lines 199-212) ----

\* a loop that does not test the flag
GraphLoopForever ==
  /\ gpc = "loop"
  /\ gpc' = "get_event"
  /\ UNCHANGED <<g_buffer_count, gIter>>
  /\ UNCHANGED <<cameraVars, paramVars, graphVars, teardownVars,
                 executorVars, relayVars, initVars>>

\* line 200: while (!stop_threads_.load())
GraphLoop ==
  /\ gpc = "loop"
  /\ gpc' = IF stop_threads_ THEN "exited" ELSE "get_event"
  /\ UNCHANGED <<g_buffer_count, gIter>>
  /\ UNCHANGED <<cameraVars, paramVars, graphVars, teardownVars,
                 executorVars, relayVars, initVars>>

\* line 201: a fresh event object, its flag clear
GraphGetEvent ==
  /\ gpc = "get_event"
  /\ event_flag' = FALSE
  /\ gIter' = NewIter
  /\ gpc' = "wait"
  /\ UNCHANGED <<num_subscribers, g_buffer_count>>
  /\ UNCHANGED <<cameraVars, paramVars, teardownVars, executorVars, relayVars, initVars>>

\* line 202: returns when the event is set or after 50 ms
GraphWait ==
  /\ gpc = "wait"
  /\ gpc' = "check"
  /\ UNCHANGED <<g_buffer_count, gIter>>
  /\ UNCHANGED <<cameraVars, paramVars, graphVars, teardownVars,
                 executorVars, relayVars, initVars>>

\* a loop that goes on to its conditions whatever check_and_clear() answers
GraphCheckIgnored ==
  /\ gpc = "check"
  /\ gpc' = "if_start"
  /\ gIter' = [gIter EXCEPT !.woke = IF event_flag THEN "change" ELSE "timeout"]
  /\ event_flag' = FALSE
  /\ UNCHANGED <<num_subscribers, g_buffer_count>>
  /\ UNCHANGED <<cameraVars, paramVars, teardownVars, executorVars, relayVars, initVars>>

\* line 204: event->check_and_clear()
GraphCheck ==
  /\ gpc = "check"
  /\ gpc' = IF event_flag THEN "if_start" ELSE "loop"
  /\ gIter' = [gIter EXCEPT !.woke = IF event_flag THEN "change" ELSE "timeout"]
  /\ event_flag' = FALSE
  /\ UNCHANGED <<num_subscribers, g_buffer_count>>
  /\ UNCHANGED <<cameraVars, paramVars, teardownVars, executorVars, relayVars, initVars>>

\* the start condition without its is_streaming() test
WantsStartAnyState(subs, streaming) == subs > 0

\* line 205: the condition of the automatic start
WantsStart(subs, streaming) == subs > 0 /\ ~streaming

\* a monitor that never stops the stream
WantsStopNever(subs, streaming) == FALSE

\* line 207: the condition of the automatic stop
WantsStop(subs, streaming) == subs = 0 /\ streaming

\* lines 205-206
GraphIfStart ==
  /\ gpc = "if_start"
  /\ LET obs == [subs |-> num_subscribers, streaming |-> is_streaming] IN
     IF WantsStart(num_subscribers, is_streaming)
       THEN /\ gpc' = "start_read"
            /\ gIter' = [gIter EXCEPT !.first = obs, !.calls = Append(@, "start")]
       ELSE /\ gpc' = "if_stop"
            /\ gIter' = [gIter EXCEPT !.first = obs]
  /\ UNCHANGED g_buffer_count
  /\ UNCHANGED <<cameraVars, paramVars, graphVars, teardownVars,
                 executorVars, relayVars, initVars>>

\* lines 207-208
GraphIfStop ==
  /\ gpc = "if_stop"
  /\ LET obs == [subs |-> num_subscribers, streaming |-> is_streaming] IN
     IF WantsStop(num_subscribers, is_streaming)
       THEN /\ gpc' = "stop_call"
            /\ gIter' = [gIter EXCEPT !.second = obs, !.calls = Append(@, "stop")]
       ELSE /\ gpc' = "loop"
            /\ gIter' = [gIter EXCEPT !.second = obs]
  /\ UNCHANGED g_buffer_count
  /\ UNCHANGED <<cameraVars, paramVars, graphVars, teardownVars,
                 executorVars, relayVars, initVars>>

\* start_streaming(), line 755, called at line 206
GraphStartRead ==
  /\ gpc = "start_read"
  /\ g_buffer_count' = buffer_count
  /\ gpc' = "start_call"
  /\ UNCHANGED gIter
  /\ UNCHANGED <<cameraVars, paramVars, graphVars, teardownVars,
                 executorVars, relayVars, initVars>>

\* start_streaming(), lines 757-778; line 206 drops the result
GraphStartCall ==
  /\ gpc = "start_call"
  /\ \E res \in {"Success", "AlreadyStreaming", "DeviceError"} :
       /\ camera_start_streaming(g_buffer_count, res)
       /\ gIter' = [gIter EXCEPT !.result = res]
  /\ gpc' = "loop"
  /\ g_buffer_count' = 0
  /\ UNCHANGED <<camera_open, deviceReliable, lastFrameId, cb>>
  /\ UNCHANGED <<paramVars, graphVars, teardownVars, executorVars, initVars>>

\* stop_streaming() without its call of the camera (line 783)
GraphStopCallSkipped ==
  /\ gpc = "stop_call"
  /\ gIter' = [gIter EXCEPT !.result = "Success"]
  /\ gpc' = "loop"
  /\ UNCHANGED g_buffer_count
  /\ UNCHANGED <<cameraVars, paramVars, graphVars, teardownVars,
                 executorVars, relayVars, initVars>>

\* stop_streaming(), lines 781-786, called at line 208
GraphStopCall ==
  /\ gpc = "stop_call"
  /\ \E res \in {"Success", "DeviceError"} :
       /\ camera_stop_streaming(res)
       /\ gIter' = [gIter EXCEPT !.result = res]
  /\ gpc' = "loop"
  /\ UNCHANGED g_buffer_count
  /\ UNCHANGED <<camera_open, deviceReliable, lastFrameId, cb>>
  /\ UNCHANGED <<paramVars, graphVars, teardownVars, executorVars, initVars>>

GraphMonitor ==
  \/ GraphLoop \/ GraphGetEvent \/ GraphWait \/ GraphCheck
  \/ GraphIfStart \/ GraphIfStop
  \/ GraphStartRead \/ GraphStartCall \/ GraphStopCall

\* ---- the executor: callback groups and the stream services ----

\* the stream group created reentrant
GroupTypeReentrant(g) ==
  CASE g = "feature" -> "Reentrant"
    [] g = "settings" -> "MutuallyExclusive"
    [] g = "status" -> "Reentrant"
    [] g = "stream" -> "Reentrant"

\* lines 223, 229, 235, 241: the type each callback group is created with
GroupType(g) ==
  CASE g = "feature" -> "Reentrant"
    [] g = "settings" -> "MutuallyExclusive"
    [] g = "status" -> "Reentrant"
    [] g = "stream" -> "MutuallyExclusive"

StreamServices == {"stream_start", "stream_stop"}

\* the services of feature_callback_group_ (lines 254-652) share one handler
\* body; feature_int_get (lines 254-266) stands for them
FeatureServices == {"feature_int_get"}

SettingsServices == {"settings_save", "settings_load"}

StatusServices == {"status"}

DeviceServices == FeatureServices \cup SettingsServices \cup StatusServices

\* the services whose response carries the result of the call
PayloadServices == {"feature_int_get", "status"}

\* the feature services registered in the group of the stream services
GroupOfStreamGroup(svc) ==
  CASE svc \in StreamServices -> "stream"
    [] svc \in FeatureServices -> "stream"
    [] svc \in SettingsServices -> "settings"
    [] svc \in StatusServices -> "status"

\* the last argument of each create_service: the group of the service
GroupOf(svc) ==
  CASE svc \in StreamServices -> "stream"
    [] svc \in FeatureServices -> "feature"
    [] svc \in SettingsServices -> "settings"
    [] svc \in StatusServices -> "status"

\* the service a busy executor thread is running
Running(w) == w_job[w].svc

\* an executor that takes a callback whatever runs in its group
CanTakeAlways(g) == TRUE

\* a callback of a mutually exclusive group is taken only while no other
\* callback of the group runs; a reentrant group is always ready
CanTake(g) == GroupType(g) = "Reentrant" \/ can_be_taken_from[g]

\* a client sends a request to one of the stream services
RequestArrives ==
  /\ tpc = "alive"
  /\ \E svc \in StreamServices \ pending : pending' = pending \cup {svc}
  /\ UNCHANGED <<can_be_taken_from, wpc, w_buffer_count, w_job>>
  /\ UNCHANGED <<cameraVars, paramVars, graphVars, monitorVars,
                 teardownVars, relayVars, initVars>>

\* a client sends a request to a feature, settings or status service
DeviceRequestArrives ==
  /\ tpc = "alive"
  /\ Cardinality(pending) < MaxPending
  /\ \E svc \in DeviceServices \ pending : pending' = pending \cup {svc}
  /\ UNCHANGED <<can_be_taken_from, wpc, w_buffer_count, w_job>>
  /\ UNCHANGED <<cameraVars, paramVars, graphVars, monitorVars,
                 teardownVars, relayVars, initVars>>

\* the first statement of the handler of a service
HandlerEntry(svc) ==
  CASE svc = "stream_start" -> "start_read"
    [] svc = "stream_stop" -> "stop_call"
    [] OTHER -> "device_call"

\* the first idle executor thread takes a waiting request of a service; the
\* threads are alike, so which idle one takes it makes no difference
DispatchService(w, svc) ==
  /\ tpc = "alive"
  /\ wpc[w] = "idle"
  /\ \A v \in Workers : v < w => wpc[v] # "idle"
  /\ svc \in pending
  /\ CanTake(GroupOf(svc))
  /\ pending' = pending \ {svc}
  /\ can_be_taken_from' =
       [can_be_taken_from EXCEPT ![GroupOf(svc)] =
          IF GroupType(GroupOf(svc)) = "MutuallyExclusive" THEN FALSE ELSE @]
  /\ wpc' = [wpc EXCEPT ![w] = HandlerEntry(svc)]
  /\ w_job' = [w_job EXCEPT ![w] = [NoJob EXCEPT !.svc = svc]]
  /\ UNCHANGED w_buffer_count
  /\ UNCHANGED <<cameraVars, paramVars, graphVars, monitorVars,
                 teardownVars, relayVars, initVars>>

Dispatch(w) == \E svc \in StreamServices \cup DeviceServices : DispatchService(w, svc)

\* a handler that answers an error code of its own
ResponseOwnCode(svc, r) ==
  [error |-> IF r.code # "Success" THEN "Failed" ELSE "Success",
   payload |-> IF r.code = "Success" /\ svc \in PayloadServices THEN r.value ELSE 0]

\* the body every handler shares (lines 261-265, 661-663, 688-714, 726-728,
\* 740-742): the error code of a failed call, the value of a successful one
Response(svc, r) ==
  [error |-> IF r.code # "Success" THEN r.code ELSE "Success",
   payload |-> IF r.code = "Success" /\ svc \in PayloadServices THEN r.value ELSE 0]

Answered(job, r) ==
  [job EXCEPT !.result = r,
              !.error = Response(job.svc, r).error,
              !.payload = Response(job.svc, r).payload]

\* stream_start handler, line 725: start_streaming(), line 755
HandlerStartRead(w) ==
  /\ wpc[w] = "start_read"
  /\ w_buffer_count' = [w_buffer_count EXCEPT ![w] = buffer_count]
  /\ wpc' = [wpc EXCEPT ![w] = "start_call"]
  /\ UNCHANGED <<pending, can_be_taken_from, w_job>>
  /\ UNCHANGED <<cameraVars, paramVars, graphVars, monitorVars,
                 teardownVars, relayVars, initVars>>

\* the stream_start handler without lines 726-728
HandlerStartCallSilent(w) ==
  /\ wpc[w] = "start_call"
  /\ \E res \in {"Success", "AlreadyStreaming", "DeviceError"} :
       /\ camera_start_streaming(w_buffer_count[w], res)
       /\ w_job' = [w_job EXCEPT ![w].found_streaming = is_streaming,
                                 ![w].result = [code |-> res, value |-> 0]]
  /\ wpc' = [wpc EXCEPT ![w] = "respond"]
  /\ w_buffer_count' = [w_buffer_count EXCEPT ![w] = 0]
  /\ UNCHANGED <<pending, can_be_taken_from>>
  /\ UNCHANGED <<camera_open, deviceReliable, lastFrameId, cb>>
  /\ UNCHANGED <<paramVars, graphVars, monitorVars, teardownVars, initVars>>

\* stream_start handler: start_streaming() lines 757-778, then lines 726-728
HandlerStartCall(w) ==
  /\ wpc[w] = "start_call"
  /\ \E res \in {"Success", "AlreadyStreaming", "DeviceError"} :
       /\ camera_start_streaming(w_buffer_count[w], res)
       /\ w_job' = [w_job EXCEPT ![w] =
            Answered([@ EXCEPT !.found_streaming = is_streaming],
                     [code |-> res, value |-> 0])]
  /\ wpc' = [wpc EXCEPT ![w] = "respond"]
  /\ w_buffer_count' = [w_buffer_count EXCEPT ![w] = 0]
  /\ UNCHANGED <<pending, can_be_taken_from>>
  /\ UNCHANGED <<camera_open, deviceReliable, lastFrameId, cb>>
  /\ UNCHANGED <<paramVars, graphVars, monitorVars, teardownVars, initVars>>

\* the stream_stop handler without lines 740-742
HandlerStopCallSilent(w) ==
  /\ wpc[w] = "stop_call"
  /\ \E res \in {"Success", "DeviceError"} :
       /\ camera_stop_streaming(res)
       /\ w_job' = [w_job EXCEPT ![w].found_streaming = is_streaming,
                                 ![w].result = [code |-> res, value |-> 0]]
  /\ wpc' = [wpc EXCEPT ![w] = "respond"]
  /\ UNCHANGED <<pending, can_be_taken_from, w_buffer_count>>
  /\ UNCHANGED <<camera_open, deviceReliable, lastFrameId, cb>>
  /\ UNCHANGED <<paramVars, graphVars, monitorVars, teardownVars, initVars>>

\* stream_stop handler, lines 739-742: camera_->stop_streaming()
HandlerStopCall(w) ==
  /\ wpc[w] = "stop_call"
  /\ \E res \in {"Success", "DeviceError"} :
       /\ camera_stop_streaming(res)
       /\ w_job' = [w_job EXCEPT ![w] =
            Answered([@ EXCEPT !.found_streaming = is_streaming],
                     [code |-> res, value |-> 0])]
  /\ wpc' = [wpc EXCEPT ![w] = "respond"]
  /\ UNCHANGED <<pending, can_be_taken_from, w_buffer_count>>
  /\ UNCHANGED <<camera_open, deviceReliable, lastFrameId, cb>>
  /\ UNCHANGED <<paramVars, graphVars, monitorVars, teardownVars, initVars>>

\* what the device may answer to the call of a service
DeviceResults(svc) ==
  {[code |-> "Success", value |-> v] :
     v \in IF svc \in PayloadServices THEN PayloadValues ELSE {0}}
  \cup {[code |-> c, value |-> 0] : c \in ErrorCodes}

\* a settings handler that stops the stream before its call
HandlerDeviceCallStops(w) ==
  /\ wpc[w] = "device_call"
  /\ \E r \in DeviceResults(Running(w)) :
       w_job' = [w_job EXCEPT ![w] = Answered(@, r)]
  /\ is_streaming' = FALSE
  /\ session_buffers' = 0
  /\ wpc' = [wpc EXCEPT ![w] = "respond"]
  /\ UNCHANGED <<pending, can_be_taken_from, w_buffer_count>>
  /\ UNCHANGED <<camera_open, deviceReliable, relayVars>>
  /\ UNCHANGED <<paramVars, graphVars, monitorVars, teardownVars, initVars>>

\* feature, settings and status handlers (lines 260-265, 660-663, 674-677,
\* 687-714): the single call of the camera and the response
HandlerDeviceCall(w) ==
  /\ wpc[w] = "device_call"
  /\ \E r \in DeviceResults(Running(w)) :
       /\ camera_device_call(DeviceResults(Running(w)), r)
       /\ w_job' = [w_job EXCEPT ![w] = Answered(@, r)]
  /\ wpc' = [wpc EXCEPT ![w] = "respond"]
  /\ UNCHANGED <<pending, can_be_taken_from, w_buffer_count>>
  /\ UNCHANGED <<camera_open, deviceReliable, lastFrameId, cb>>
  /\ UNCHANGED <<paramVars, graphVars, monitorVars, teardownVars, initVars>>

\* the handler returns: the response is sent and the group is free again
HandlerRespond(w) ==
  /\ wpc[w] = "respond"
  /\ wpc' = [wpc EXCEPT ![w] = "idle"]
  /\ w_job' = [w_job EXCEPT ![w] = NoJob]
  /\ can_be_taken_from' = [can_be_taken_from EXCEPT ![GroupOf(Running(w))] = TRUE]
  /\ UNCHANGED <<pending, w_buffer_count>>
  /\ UNCHANGED <<cameraVars, paramVars, graphVars, monitorVars,
                 teardownVars, relayVars, initVars>>

\* the callback without its is_streaming() test
SetParametersResultUnchecked(streaming) == TRUE

\* lines 114-124: the answer of the on_set_parameters callback to a request
\* that names buffer_count
SetParametersResult(streaming) == ~streaming

\* a set request for buffer_count: the callback of lines 111-125 is run and
\* the value is stored when the callback answers successful
SetBufferCount ==
  /\ tpc = "alive"
  /\ \E w \in Workers : wpc[w] = "idle"
  /\ \E v \in BufferValues :
       LET ok == SetParametersResult(is_streaming) IN
       /\ buffer_count' = IF ok THEN v ELSE buffer_count
       /\ lastSet' = [requested |-> TRUE, successful |-> ok,
                      streaming |-> is_streaming,
                      accepted |-> IF is_streaming THEN lastSet.accepted ELSE v]
  /\ UNCHANGED <<cameraVars, graphVars, monitorVars, teardownVars,
                 executorVars, relayVars, initVars>>

\* ---- ~VimbaXCameraNode (lines 80-93), run once the executor stopped ----

\* line 82
DtorSetFlag ==
  /\ tpc = "alive"
  /\ init.pc = "done"
  /\ \A w \in Workers : wpc[w] = "idle"
  /\ stop_threads_' = TRUE
  /\ tpc' = "join"
  /\ UNCHANGED <<cameraVars, paramVars, graphVars, monitorVars,
                 executorVars, relayVars, initVars>>

\* lines 84-86: join() returns once the monitor thread has left its loop
DtorJoin ==
  /\ tpc = "join"
  /\ gpc = "exited"
  /\ tpc' = "stop"
  /\ UNCHANGED stop_threads_
  /\ UNCHANGED <<cameraVars, paramVars, graphVars, monitorVars,
                 executorVars, relayVars, initVars>>

\* the destructor without its stop of a streaming camera
DtorStopSkipped ==
  /\ tpc = "stop"
  /\ tpc' = "reset"
  /\ UNCHANGED stop_threads_
  /\ UNCHANGED <<cameraVars, relayVars>>
  /\ UNCHANGED <<paramVars, graphVars, monitorVars, executorVars, initVars>>

\* lines 88-90
DtorStop ==
  /\ tpc = "stop"
  /\ IF camera_open /\ is_streaming
       THEN \E res \in {"Success", "DeviceError"} : camera_stop_streaming(res)
       ELSE UNCHANGED <<is_streaming, session_buffers, dev_last_id>>
  /\ tpc' = "reset"
  /\ UNCHANGED stop_threads_
  /\ UNCHANGED <<camera_open, deviceReliable, lastFrameId, cb>>
  /\ UNCHANGED <<paramVars, graphVars, monitorVars, executorVars, initVars>>

\* line 92
DtorReset ==
  /\ tpc = "reset"
  /\ camera_open' = FALSE
  /\ tpc' = "released"
  /\ UNCHANGED stop_threads_
  /\ UNCHANGED <<is_streaming, session_buffers, deviceReliable>>
  /\ UNCHANGED <<paramVars, graphVars, monitorVars, executorVars, relayVars, initVars>>

Destructor == DtorSetFlag \/ DtorJoin \/ DtorStop \/ DtorReset

\* ---- the frame callback (lines 759-775), run by the device thread ----

\* line 761
FrameDiff(id, last) == id - last

\* the report of diff instead of diff - 1
MissingFramesOffByOne(diff) == IF diff > 1 THEN diff ELSE 0

\* lines 763-765: the number of missing frames reported, 0 for no report
MissingFrames(diff) == IF diff > 1 THEN diff - 1 ELSE 0

\* lines 759-767: the device delivers the next frame of the session
FrameCallback ==
  /\ camera_open /\ is_streaming
  /\ cb.pc \in {"idle", "done"}
  /\ \E id \in FrameIds :
       /\ id > dev_last_id
       /\ LET diff == FrameDiff(id, lastFrameId) IN
          cb' = [pc |-> "publish", id |-> id, prev |-> lastFrameId,
                 first |-> (dev_last_id = -1),
                 warns |-> IF MissingFrames(diff) > 0 THEN 1 ELSE 0,
                 missing |-> MissingFrames(diff),
                 publish |-> "none", queue_calls |-> 0, queue_result |-> "none",
                 after_failed |-> (dev_last_id # -1 /\ cb.queue_result = "Error")]
       /\ lastFrameId' = id
       /\ dev_last_id' = id
  /\ UNCHANGED <<camera_open, is_streaming, session_buffers, deviceReliable>>
  /\ UNCHANGED <<paramVars, graphVars, monitorVars, teardownVars, executorVars, initVars>>

\* line 769: publish() returns, having sent the frame or not, or throws;
\* nothing in the callback catches, so a throw ends the callback
FramePublish ==
  /\ cb.pc = "publish"
  /\ \E outcome \in {"published", "failed", "threw"} :
       cb' = [cb EXCEPT !.publish = outcome,
                        !.pc = IF outcome = "threw" THEN "done" ELSE "queue"]
  /\ UNCHANGED <<lastFrameId, dev_last_id>>
  /\ UNCHANGED <<cameraVars, paramVars, graphVars, monitorVars,
                 teardownVars, executorVars, initVars>>

\* a callback that requeues the buffer before it publishes the frame
FrameQueueFirst ==
  /\ cb.pc = "publish"
  /\ cb.queue_calls = 0
  /\ \E r \in {"Success", "Error"} :
       cb' = [cb EXCEPT !.queue_calls = @ + 1, !.queue_result = r]
  /\ UNCHANGED <<lastFrameId, dev_last_id>>
  /\ UNCHANGED <<cameraVars, paramVars, graphVars, monitorVars,
                 teardownVars, executorVars, initVars>>

\* a callback that ends the stream when the requeue fails
FrameQueueEscalates ==
  /\ cb.pc = "queue"
  /\ \E r \in {"Success", "Error"} :
       /\ cb' = [cb EXCEPT !.queue_calls = @ + 1, !.queue_result = r, !.pc = "done"]
       /\ is_streaming' = (is_streaming /\ r = "Success")
       /\ session_buffers' = IF r = "Success" THEN session_buffers ELSE 0
  /\ UNCHANGED <<lastFrameId, dev_last_id, camera_open, deviceReliable>>
  /\ UNCHANGED <<paramVars, graphVars, monitorVars,
                 teardownVars, executorVars, initVars>>

\* lines 771-774: frame->queue(); a failure is logged
FrameQueue ==
  /\ cb.pc = "queue"
  /\ \E r \in {"Success", "Error"} :
       cb' = [cb EXCEPT !.queue_calls = @ + 1, !.queue_result = r, !.pc = "done"]
  /\ UNCHANGED <<lastFrameId, dev_last_id>>
  /\ UNCHANGED <<cameraVars, paramVars, graphVars, monitorVars,
                 teardownVars, executorVars, initVars>>

FrameRelay == FrameCallback \/ FramePublish \/ FrameQueue

Executor ==
  \/ RequestArrives
  \/ SetBufferCount
  \/ \E w \in Workers :
       \/ Dispatch(w)
       \/ HandlerStartRead(w) \/ HandlerStartCall(w) \/ HandlerStopCall(w)
       \/ HandlerRespond(w)

\* The stream lifecycle: the monitor, the executor and the destructor.
\* The frame callback touches none of their variables.
Next == GraphChange \/ GraphMonitor \/ Executor \/ Destructor

\* a device that may fail the calls it can fail; it may as well answer each
\* of them as a reliable device does, so no behaviour is left out
FallibleInit == Init /\ ~deviceReliable

Spec == FallibleInit /\ [][Next]_vars

\* The frame relay: frames of the sessions the monitor starts and stops.
RelayNext == GraphChange \/ GraphMonitor \/ FrameRelay

RelaySpec == Init /\ [][RelayNext]_vars

\* The services: the executor with requests to every group.
ServiceNext ==
  \/ RequestArrives
  \/ DeviceRequestArrives
  \/ \E w \in Workers :
       \/ Dispatch(w)
       \/ HandlerStartRead(w) \/ HandlerStartCall(w) \/ HandlerStopCall(w)
       \/ HandlerDeviceCall(w)
       \/ HandlerRespond(w)

ServiceSpec == FallibleInit /\ [][ServiceNext]_vars

\* a subscriber joins or leaves: the graph changes of interest to the monitor
SubscriberChange ==
  /\ GraphChange
  /\ num_subscribers' # num_subscribers

\* The monitor alone with the subscribers: no explicit request, no parameter
\* change, no teardown.
LiveNext == SubscriberChange \/ GraphMonitor

\* The monitor thread is scheduled: whenever it can take a step it
\* eventually does (the wait of line 202 ends after 50 ms at the latest).
LiveSpec == Init /\ [][LiveNext]_vars /\ WF_vars(GraphMonitor)

\* The teardown of a running node: the destructor beside the monitor. The
\* monitor thread is scheduled and its calls of the camera return; the
\* destructor's join returns once the thread has ended.
TeardownNext == GraphChange \/ GraphMonitor \/ Destructor

TeardownSpec ==
  Init /\ [][TeardownNext]_vars /\ WF_vars(GraphMonitor) /\ WF_vars(DtorJoin)

\* The construction of the node, followed by its monitor.
InitNext ==
  \/ MakeNode \/ InitParameters \/ InitApi
  \/ InitCameraOpen \/ InitCameraSettings
  \/ InitCallbackGroups \/ InitPublisher \/ InitServices \/ InitGraphNotify
  \/ GraphChange \/ GraphMonitor

InitSpec == InitStart /\ [][InitNext]_vars

\* ---- properties ----

CameraCalls == {"start_call", "stop_call"}

InCameraCall ==
  {w \in Workers : wpc[w] \in CameraCalls}

\* C1: at most one of the monitor's start, the monitor's stop, a stream_start
\* handler and a stream_stop handler is executing its camera start/stop call.
C1_TransitionsSerialized ==
  Cardinality(InCameraCall) + (IF gpc \in CameraCalls THEN 1 ELSE 0) <= 1

\* C2: at most one stream_start or stream_stop handler is in flight.
C2_StreamHandlersExclusive ==
  Cardinality({w \in Workers : Running(w) \in StreamServices}) <= 1

\* a stream handler is in its camera call, an executor thread is idle and
\* requests for both services wait
C2_Witness ==
  \E w, v \in Workers :
    /\ wpc[w] = "start_call"
    /\ wpc[v] = "idle"
    /\ pending = StreamServices

\* C3: a frame whose callback has ended was requeued exactly once, whatever
\* the outcome of its publication.
C3_RequeuedExactlyOnce ==
  cb.pc = "done" => cb.queue_calls = 1

\* C4: the first frame of every session is compared against the sentinel.
C4_ResetAtRestart ==
  (cb.pc # "idle" /\ cb.first) => cb.prev = LastFrameIdInitial

\* C5: while the camera streams, the buffer_count parameter equals the count
\* the active session was started with.
C5_BufferCountFixed ==
  is_streaming => session_buffers = buffer_count

\* C6: a buffer_count change is rejected, and the parameter left alone,
\* exactly when the camera streams at the request; an accepted value is the
\* one every later start_streaming() reads.
C6_SetOutcome ==
  /\ lastSet.requested => (lastSet.successful <=> ~lastSet.streaming)
  /\ buffer_count = lastSet.accepted

C6_StartReads ==
  /\ (gpc = "start_read" /\ gpc' = "start_call") => g_buffer_count' = lastSet.accepted
  /\ \A w \in Workers :
       (wpc[w] = "start_read" /\ wpc'[w] = "start_call")
          => w_buffer_count'[w] = lastSet.accepted

C8_EventuallyStreaming ==
  (deviceReliable /\ tpc = "alive" /\ num_subscribers > 0)
    ~> \/ is_streaming /\ session_buffers = buffer_count
       \/ num_subscribers = 0
       \/ tpc # "alive"

\* C9: a frame is reported once, with k-1 missing frames, exactly when its
\* id exceeds the last-seen id by k > 1, and last-seen becomes its id.
C9_GapDiagnostic ==
  cb.pc # "idle" =>
    /\ (cb.id - cb.prev > 1) => (cb.warns = 1 /\ cb.missing = cb.id - cb.prev - 1)
    /\ (cb.id - cb.prev <= 1) => (cb.warns = 0 /\ cb.missing = 0)
    /\ lastFrameId = cb.id

\* a frame later in a session whose id jumps by more than 1
C9_Witness ==
  /\ cb.pc = "done"
  /\ ~cb.first
  /\ cb.id - cb.prev = 3
  /\ cb.missing = 2

\* C10: the destructor sets the flag, joins the monitor, stops a streaming
\* camera and releases it, in this order; after the join the monitor has
\* left its loop, and a released camera is not streaming.
C10_TeardownOrder ==
  /\ tpc # "alive" => stop_threads_
  /\ tpc \in {"stop", "reset", "released"} => gpc = "exited"
  /\ tpc \in {"reset", "released"} => ~is_streaming
  /\ camera_open <=> tpc # "released"
  /\ ~camera_open => ~is_streaming

\* the destructor has set the flag and joined the monitor, and finds the
\* camera streaming
C10_Witness ==
  /\ tpc = "stop"
  /\ stop_threads_
  /\ gpc = "exited"
  /\ is_streaming

\* C11: once the stop flag is set the monitor leaves its loop and the join of
\* the destructor returns; the monitor begins no iteration after the flag is
\* set, and an iteration makes at most one start or stop request.
C11_MonitorTerminates ==
  /\ stop_threads_ ~> (gpc = "exited")
  /\ (tpc = "join") ~> (tpc = "stop")
  /\ [][stop_threads_ /\ gpc = "loop" => gpc' # "get_event"]_vars
  /\ [](Len(gIter.calls) <= 1)

\* the join has returned after an iteration in which the monitor made a
\* request, and the stream it left running is still to be stopped
C11_Witness ==
  /\ tpc = "stop"
  /\ gpc = "exited"
  /\ gIter.calls = <<"start">>
  /\ is_streaming

InFlight(services) == {w \in Workers : Running(w) \in services}

IdleThread == \E w \in Workers : wpc[w] = "idle"

\* a waiting request of the service can be taken by an executor thread now
CanDispatch(svc) == ENABLED (\E w \in Workers : DispatchService(w, svc))

\* C12: at most one settings_save or settings_load handler is in flight; a
\* waiting settings request is taken whenever a thread is idle and no
\* settings handler runs, whatever the stream handlers do, and a waiting
\* stream request is taken whatever the settings handlers do.
C12_SettingsExclusive ==
  /\ Cardinality(InFlight(SettingsServices)) <= 1
  /\ \A svc \in SettingsServices :
       (svc \in pending /\ IdleThread /\ tpc = "alive"
          /\ InFlight(SettingsServices) = {}) => CanDispatch(svc)
  /\ \A svc \in StreamServices :
       (svc \in pending /\ IdleThread /\ tpc = "alive"
          /\ InFlight(StreamServices) = {}) => CanDispatch(svc)

\* a settings handler and a stream handler are both in their camera call
C12_Witness ==
  \E w, v \in Workers :
    /\ Running(w) \in SettingsServices
    /\ wpc[w] = "device_call"
    /\ Running(v) \in StreamServices
    /\ wpc[v] \in CameraCalls

\* C13: a waiting feature request is taken as soon as a thread is idle,
\* whatever handlers are in flight, and a feature handler in flight can
\* always take its next step.
C13_FeatureNeverBlocked ==
  /\ \A svc \in FeatureServices :
       (svc \in pending /\ IdleThread /\ tpc = "alive") => CanDispatch(svc)
  /\ \A w \in InFlight(FeatureServices) :
       ENABLED (HandlerDeviceCall(w) \/ HandlerRespond(w))

\* a feature handler has made its call and answers while a stream handler is
\* in its camera call
C13_Witness ==
  \E w, v \in Workers :
    /\ Running(w) \in FeatureServices
    /\ wpc[w] = "respond"
    /\ Running(v) \in StreamServices
    /\ wpc[v] \in CameraCalls

\* a thread ends the camera call of the handler of a stream service
StartCallEnds(w) == wpc[w] = "start_call" /\ wpc'[w] = "respond"

StopCallEnds(w) == wpc[w] = "stop_call" /\ wpc'[w] = "respond"

C14_Step ==
  /\ \A w \in Workers :
       (StartCallEnds(w) /\ is_streaming) =>
         /\ is_streaming'
         /\ session_buffers' = session_buffers
         /\ w_job'[w].error = "AlreadyStreaming"
  /\ (gpc = "start_call" /\ gpc' = "loop" /\ is_streaming) =>
         /\ is_streaming'
         /\ session_buffers' = session_buffers
         /\ gIter'.result = "AlreadyStreaming"

\* C14: a start made while the camera streams, by the stream_start handler
\* or by the monitor, returns AlreadyStreaming, which the handler puts in its
\* response, and leaves the stream and the buffers of the session as they are.
C14_StartWhileStreaming == [][C14_Step]_vars

\* a stream_start handler found the camera streaming and answers
\* AlreadyStreaming; the session goes on with its buffers
C14_Witness ==
  \E w \in Workers :
    /\ wpc[w] = "respond"
    /\ Running(w) = "stream_start"
    /\ w_job[w].found_streaming
    /\ w_job[w].error = "AlreadyStreaming"
    /\ is_streaming
    /\ session_buffers = buffer_count

C15_Step ==
  /\ \A w \in Workers :
       StopCallEnds(w) =>
         /\ ~is_streaming'
         /\ ~is_streaming =>
              /\ w_job'[w].error = "Success"
              /\ session_buffers' = session_buffers
  /\ (gpc = "stop_call" /\ gpc' = "loop") =>
         /\ ~is_streaming'
         /\ ~is_streaming =>
              /\ gIter'.result = "Success"
              /\ session_buffers' = session_buffers
  /\ (tpc = "stop" /\ tpc' = "reset") =>
         /\ ~is_streaming'
         /\ ~is_streaming => session_buffers' = session_buffers

\* C15: a stop made while the camera is stopped, by the stream_stop handler,
\* by the monitor or by the destructor, succeeds and changes nothing; after
\* any stop the camera is stopped, so a second stop leaves what the first left.
C15_StopIdempotent == [][C15_Step]_vars

\* a stream_stop handler found the camera stopped and answers success
C15_Witness ==
  \E w \in Workers :
    /\ wpc[w] = "respond"
    /\ Running(w) = "stream_stop"
    /\ ~w_job[w].found_streaming
    /\ w_job[w].error = "Success"
    /\ ~is_streaming

\* the stream_stop handlers that have made their call and answer
StopAnswering ==
  {w \in Workers : wpc[w] = "respond" /\ Running(w) = "stream_stop"}

\* C16: the response of stream_stop never carries an error.
C16_StopAlwaysSuccess ==
  \A w \in StopAnswering : w_job[w].error = "Success"

\* C16, amended: the response of stream_stop is a success when
\* camera_->stop_streaming() succeeds and carries the error code of that call
\* when it fails; in both cases the stream is stopped when the call returns.
C16_StopForwardsError ==
  /\ [](\A w \in StopAnswering :
          w_job[w].error = IF w_job[w].result.code = "Success"
                             THEN "Success" ELSE w_job[w].result.code)
  /\ [][\A w \in Workers : StopCallEnds(w) => ~is_streaming']_vars

\* a stream_stop handler ended a session, the device reported an error, and
\* the handler answers that error; the stream is stopped
C16_Witness ==
  \E w \in StopAnswering :
    /\ w_job[w].found_streaming
    /\ w_job[w].result.code = "DeviceError"
    /\ w_job[w].error = "DeviceError"
    /\ ~is_streaming

\* the handlers of the services that have made their call and answer
Answering(services) ==
  {w \in Workers : wpc[w] = "respond" /\ Running(w) \in services}

\* C17: the response of a feature, settings, status or stream_start handler
\* carries the error code of its camera call when the call failed; when it
\* succeeded the error field keeps its default and the payload is the result
\* of the call.
C17_ErrorsForwarded ==
  \A w \in Answering(DeviceServices \cup {"stream_start"}) :
    IF w_job[w].result.code # "Success"
      THEN w_job[w].error = w_job[w].result.code
      ELSE /\ w_job[w].error = NoJob.error
           /\ w_job[w].payload =
                IF Running(w) \in PayloadServices
                  THEN w_job[w].result.value ELSE NoJob.payload

\* a feature handler answers the value its call returned while a stream_start
\* handler answers the AlreadyStreaming of its call
C17_Witness ==
  \E w, v \in Workers :
    /\ w \in Answering({"feature_int_get"})
    /\ w_job[w].result.code = "Success"
    /\ w_job[w].payload = w_job[w].result.value
    /\ w_job[w].payload \in PayloadValues
    /\ v \in Answering({"stream_start"})
    /\ w_job[v].result.code = "AlreadyStreaming"
    /\ w_job[v].error = "AlreadyStreaming"

\* a thread takes a step of the handler of a feature, settings or status
\* service
DeviceHandlerStep(w) ==
  /\ Running(w) \in DeviceServices
  /\ wpc'[w] # wpc[w]

C18_Step ==
  /\ \A w \in Workers :
       DeviceHandlerStep(w) =>
         /\ is_streaming' = is_streaming
         /\ session_buffers' = session_buffers
         /\ camera_open' = camera_open
         /\ \A v \in Workers \ {w} : w_job'[v] = w_job[v]
  /\ is_streaming' # is_streaming =>
       \/ \E w \in Workers : StartCallEnds(w) \/ StopCallEnds(w)
       \/ gpc \in CameraCalls /\ gpc' = "loop"
       \/ tpc = "stop" /\ tpc' = "reset"

\* C18: a step of a feature, settings or status handler leaves the stream
\* state, the buffers of the session, the open camera and the responses of
\* the other handlers as they are; the stream state changes only in the
\* camera call of a stream handler, of the monitor or of the destructor.
C18_HandlersLeaveStream == [][C18_Step]_vars

\* a settings handler answers the error of its call beside a stream_start
\* handler that answers success; the camera streams
C18_Witness ==
  \E w, v \in Workers :
    /\ w \in Answering(SettingsServices)
    /\ w_job[w].error \in ErrorCodes
    /\ v \in Answering({"stream_start"})
    /\ w_job[v].error = "Success"
    /\ is_streaming
    /\ camera_open

C19_LoadStep ==
  (init.pc = "camera_settings" /\ init' # init) =>
    /\ init'.pc = "groups"
    /\ camera_open /\ camera_open'
    /\ init'.loads = IF init.settings_file # "" THEN 1 ELSE 0

\* C19: initialize_camera() goes on to the callback groups with the camera
\* open whatever the load of the settings file answers; the load is made at
\* most once, and only when the settings_file parameter is not empty.
C19_SettingsLoadNotFatal ==
  /\ [][C19_LoadStep]_vars
  /\ [](init.loads <= 1)
  /\ [](init.loads = 1 => init.settings_file # "")
  /\ [](init.load_failed => init.loads = 1)

\* the load of the configured settings file failed; the node is created, its
\* camera open and its monitor running
C19_Witness ==
  /\ init.pc = "done"
  /\ init.settings_file # ""
  /\ init.load_failed
  /\ camera_open
  /\ gpc # "not_started"

\* C20: while the callback publishes a frame its buffer has not been
\* requeued, and a buffer is requeued only after publish() returned.
C20_PublishBeforeRequeue ==
  /\ cb.pc = "publish" => cb.queue_calls = 0
  /\ cb.queue_calls > 0 => cb.publish \in {"published", "failed"}

\* a frame was published and its buffer then requeued
C20_Witness ==
  /\ cb.pc = "done"
  /\ cb.publish = "published"
  /\ cb.queue_calls = 1
  /\ cb.queue_result = "Success"

\* the callback leaves its requeue (line 771)
RequeueEnds == cb.pc = "queue" /\ cb'.pc # "queue"

C21_Step ==
  RequeueEnds =>
    /\ cb'.pc = "done"
    /\ is_streaming' = is_streaming
    /\ session_buffers' = session_buffers
    /\ camera_open' = camera_open
    /\ gpc' = gpc
    /\ stop_threads_' = stop_threads_

\* C21: the requeue of a buffer, failed or not, ends the callback and changes
\* neither the stream state nor what the monitor does; after a failed requeue
\* the callback runs for the next frame the streaming camera delivers.
C21_RequeueFailureContained ==
  /\ [][C21_Step]_vars
  /\ []((cb.pc = "done" /\ cb.queue_result = "Error"
          /\ camera_open /\ is_streaming /\ dev_last_id < MaxFrameId)
         => ENABLED FrameCallback)

\* the requeue of the previous frame of the session failed; this frame was
\* published and its buffer requeued, and the camera streams
C21_Witness ==
  /\ cb.pc = "done"
  /\ cb.after_failed
  /\ cb.publish = "published"
  /\ cb.queue_calls = 1
  /\ cb.queue_result = "Success"
  /\ is_streaming

\* the monitor leaves the test of line 204
CheckEnds == gpc = "check" /\ gpc' # "check"

C22_Step ==
  /\ (CheckEnds /\ ~event_flag) =>
       /\ gpc' = "loop"
       /\ is_streaming' = is_streaming
       /\ gIter'.calls = << >>
  /\ (gpc' \in {"start_read", "stop_call"} /\ gpc' # gpc) =>
       gIter.woke = "change"

\* C22: the monitor calls start_streaming() or stop_streaming() only in an
\* iteration whose wait reported a graph change; an iteration whose wait
\* ended by timeout goes back to the head of the loop, with no observation
\* and no request, whatever the subscriber count and the stream state are.
C22_RequestsOnlyOnChange ==
  /\ [][C22_Step]_vars
  /\ [](gIter.calls # << >> => gIter.woke = "change")
  /\ [](gIter.woke = "timeout" =>
          /\ gIter.calls = << >>
          /\ gIter.first = NoObs /\ gIter.second = NoObs
          /\ gpc \in {"loop", "get_event", "exited"})

\* a wait ended by timeout with a subscriber present and the stream stopped:
\* the monitor is back at the head of its loop and has requested nothing
C22_Witness ==
  /\ gpc = "loop"
  /\ gIter.woke = "timeout"
  /\ gIter.calls = << >>
  /\ num_subscribers > 0
  /\ ~is_streaming

\* the monitor ends an iteration that saw a graph change; its call, if it
\* made one, succeeded, and no explicit request waits or is being handled
IterationEnds ==
  /\ gpc # "loop" /\ gpc' = "loop"
  /\ gIter'.woke = "change"
  /\ gIter'.result \in {"none", "Success"}
  /\ pending = {}
  /\ \A w \in Workers : wpc[w] = "idle"

\* C23: at the end of every such iteration the stream is running exactly
\* when the subscriber count is above 0.
C23_AgreesAfterIteration ==
  [][IterationEnds => (is_streaming' <=> num_subscribers' > 0)]_vars

\* what the monitor read at lines 205 and 207 is what holds now: the
\* subscriber count did not move after its first test, and no one else
\* moved the stream between its two tests
SawCurrent ==
  /\ gIter.first.subs = num_subscribers
  /\ gIter.second # NoObs =>
       gIter.second = [subs |-> num_subscribers, streaming |-> gIter.first.streaming]

C23_Step ==
  /\ (gpc = "if_start" /\ gpc' # gpc /\ num_subscribers > 0 /\ ~is_streaming)
       => gpc' = "start_read"
  /\ (gpc = "if_stop" /\ gpc' # gpc /\ num_subscribers = 0 /\ is_streaming)
       => gpc' = "stop_call"
  /\ (gpc = "start_call" /\ gpc' = "loop" /\ gIter'.result = "Success")
       => (is_streaming' /\ gIter'.first.subs > 0)
  /\ (gpc = "stop_call" /\ gpc' = "loop")
       => (~is_streaming' /\ gIter'.second.subs = 0)
  /\ (gpc = "if_stop" /\ gpc' = "loop" /\ gIter'.first = gIter'.second)
       => (is_streaming' <=> num_subscribers' > 0)
  /\ (IterationEnds /\ SawCurrent') => (is_streaming' <=> num_subscribers' > 0)

\* C23, amended: in an iteration that saw a graph change the monitor starts
\* a stopped stream when it sees subscribers and stops a running one when it
\* sees none, whoever started or stopped it; when its call succeeds, or when
\* it makes none and nothing changed between its two tests, the iteration
\* ends with the stream running exactly when the subscriber count it saw is
\* above 0, which is the current count unless it moved during the iteration.
C23_MonitorUndoesExplicit == [][C23_Step]_vars

\* a stream_start handler started the stream with no subscriber and has not
\* returned yet; the monitor saw a graph change, found the stream running
\* without subscriber and stopped it
C23_Witness ==
  \E w \in Workers :
    /\ wpc[w] = "respond"
    /\ Running(w) = "stream_start"
    /\ ~w_job[w].found_streaming
    /\ w_job[w].error = "Success"
    /\ gpc = "loop"
    /\ gIter.woke = "change"
    /\ gIter.second = [subs |-> 0, streaming |-> TRUE]
    /\ gIter.calls = <<"stop">>
    /\ num_subscribers = 0
    /\ ~is_streaming

\* the steps of make_shared() in the order of lines 42-72
StepOrder ==
  <<"node", "parameters", "api", "camera_open", "camera_settings",
    "groups", "publisher", "services", "graph_notify", "done">>

Rank(pc) == CHOOSE i \in 1 .. Len(StepOrder) : StepOrder[i] = pc

\* what a step leaves behind once it has begun to create it
Created(step) ==
  CASE step = "api" -> init.api
    [] step = "camera_open" -> init.camera
    [] step = "groups" -> init.groups
    [] step = "publisher" -> init.publisher
    [] step = "services" -> init.services > 0
    [] step = "graph_notify" -> gpc # "not_started"
    [] OTHER -> FALSE

\* the step has created all it creates
Completed(step) ==
  CASE step = "services" -> init.services = NumServices
    [] step \in {"node", "parameters", "camera_settings"} ->
         Rank(IF init.pc = "failed" THEN init.failed_at ELSE init.pc) > Rank(step)
    [] OTHER -> Created(step)

C24_Step ==
  init' # init =>
    /\ init.pc \notin {"failed", "done"}
    /\ init'.pc = "failed" \/ Rank(init'.pc) = Rank(init.pc) + 1
    /\ init'.pc = "failed" => init'.failed_at = init.pc

\* C24: make_shared() takes its steps in the order parameters, API, camera,
\* callback groups, publisher, services, graph monitor, and the first step
\* that fails ends it with no node and with nothing of the later steps
\* created; after a failed load of the API or a failed open of the camera
\* no service exists and the monitor thread was never started; the monitor
\* thread runs only once camera, publisher and all services exist.
C24_OrderedInitialization ==
  /\ [][C24_Step]_vars
  /\ [](NumServices = Cardinality(StreamServices \cup DeviceServices))
  /\ [](\A i \in 1 .. Len(StepOrder) : Created(StepOrder[i]) =>
           \A j \in 1 .. i - 1 : Completed(StepOrder[j]))
  /\ [](init.pc = "failed" =>
           /\ init.failed_at \in {StepOrder[i] : i \in 1 .. Len(StepOrder) - 1}
           /\ \A i \in Rank(init.failed_at) + 1 .. Len(StepOrder) :
                ~Created(StepOrder[i])
           /\ gpc = "not_started" /\ ~camera_open)
  /\ [](init.failed_at \in {"api", "camera_open"} =>
           /\ init.pc = "failed" /\ init.shutdown
           /\ init.services = 0 /\ ~init.publisher /\ ~init.groups
           /\ gpc = "not_started")
  /\ [](gpc # "not_started" =>
           /\ init.pc = "done"
           /\ camera_open /\ init.api /\ init.camera /\ init.groups
           /\ init.publisher /\ init.services = NumServices)

\* the camera failed to open after the API loaded: no node, no callback
\* group, no publisher, no service, no monitor thread
C24_Witness ==
  /\ init.pc = "failed" /\ init.failed_at = "camera_open"
  /\ init.api /\ ~init.camera /\ init.shutdown
  /\ init.services = 0 /\ ~init.publisher
  /\ gpc = "not_started"

====
